---- MODULE Spec2Model ----
(***************************************************************************)
(* Model of the gmount mount orchestration (src/gmount): the orchestrator  *)
(* MountManager.process_mounts and the three backends (CIFS, GVFS,         *)
(* rclone), run against an operating-system state made of the mount table, *)
(* the gio mount listing, the gvfs runtime directory and the file system.  *)
(*                                                                         *)
(* Strings whose content the code inspects (paths, mount-table lines,      *)
(* remote identifiers, share names) are sequences of one-character         *)
(* strings, so that substring tests, splits and strips are computed as the *)
(* code computes them.  The state holds short names ("slh", "fs", ...);    *)
(* Chars gives the text each name stands for.                              *)
(***************************************************************************)
EXTENDS Integers, Sequences, FiniteSets, TLC

VARIABLES
    config,          \* self.config['mounts'], flattened: a sequence of mount specs
    missing,         \* OS: the executables absent from the system path
    umount_only,     \* process_mounts' umount_only argument
    pc,              \* position of the run
    idx,             \* index of the mount spec being processed (1-based)
    success_count,   \* process_mounts' success_count
    failure_count,   \* process_mounts' failure_count
    mtab,            \* OS: what the `mount` command lists
    gio,             \* OS: the shares `gio mount -l` lists
    gvfsdir,         \* OS: the entries of /var/run/user/<uid>/gvfs
    fs,              \* OS: the file-system node at each local path
    tmpfile,         \* OS: does the CIFS credentials temp file exist
    cmds,            \* the external commands the last handling issued
    last,            \* the record of the last declared mount's handling
    run,             \* what the current pass has done so far
    pass,            \* 1: first call of process_mounts, 2: the second one
    exit_code,       \* the process's exit status ("none" while running)
    probe,           \* result of the last stand-alone backend call
    argv,            \* the argument lists of the commands of the latest handling
    sent             \* what the latest handling wrote to the temp file and the pty

vars == <<config, missing, umount_only, pc, idx, success_count, failure_count, mtab,
          gio, gvfsdir, fs, tmpfile, cmds, last, run, pass, exit_code, probe, argv,
          sent>>

(***************************************************************************)
(* Bounds of the model.                                                    *)
(***************************************************************************)
MaxMounts == 2
MaxPollDelay == 5
MaxRerunMounts == 1
MaxRemoteLen == 5

(***************************************************************************)
(* Text.                                                                   *)
(***************************************************************************)
Chars(s) ==
    CASE s = "slh"      -> <<"/", "m", "n", "t", "/", "s", "l", "h">>
      [] s = "slhfile"  -> <<"/", "m", "n", "t", "/", "s", "l", "h", "f", "i", "l", "e">>
      [] s = "data"     -> <<"/", "m", "n", "t", "/", "d", "a", "t", "a">>
      [] s = " on "     -> <<" ", "o", "n", " ">>
      [] s = " type "   -> <<" ", "t", "y", "p", "e", " ">>
      [] s = "cifs"     -> <<"c", "i", "f", "s">>
      [] s = "rclone"   -> <<"f", "u", "s", "e", ".", "r", "c", "l", "o", "n", "e">>
      [] s = "ext4"     -> <<"e", "x", "t", "4">>
      [] s = " (rw)"    -> <<" ", "(", "r", "w", ")">>
      [] s = "dev"      -> <<"/", "/", "f", "s", "/", "d">>
      \* hosts (config['host']), with and without a port
      [] s = "fs"       -> <<"f", "s">>
      [] s = "FS:445"   -> <<"F", "S", ":", "4", "4", "5">>
      [] s = "fileserver:445" ->
             <<"f", "i", "l", "e", "s", "e", "r", "v", "e", "r", ":", "4", "4", "5">>
      \* shares (config['share'])
      [] s = "/data"    -> <<"/", "d", "a", "t", "a">>
      [] s = "/data/sub" -> <<"/", "d", "a", "t", "a", "/", "s", "u", "b">>
      [] s = "/dat"     -> <<"/", "d", "a", "t">>
      \* remotes (config['remote'])
      [] s = "r:/bucket/sub" ->
             <<"r", ":", "/", "b", "u", "c", "k", "e", "t", "/", "s", "u", "b">>
      [] s = "remote"   -> <<"r", "e", "m", "o", "t", "e">>
      [] s = ":bucket"  -> <<":", "b", "u", "c", "k", "e", "t">>
      \* the pieces of a gvfs directory entry's name
      [] s = "smb-share:port=" ->
             <<"s", "m", "b", "-", "s", "h", "a", "r", "e", ":", "p", "o", "r", "t", "=">>
      [] s = ",server=" -> <<",", "s", "e", "r", "v", "e", "r", "=">>
      [] s = ",share="  -> <<",", "s", "h", "a", "r", "e", "=">>
      [] s = "445"      -> <<"4", "4", "5">>
      [] s = "/"        -> <<"/">>
      [] s = "old"      -> <<"o", "l", "d">>
      [] OTHER          -> <<>>

\* Python's `sub in s`
Contains(s, sub) ==
    \E i \in 0..(Len(s) - Len(sub)) : SubSeq(s, i + 1, i + Len(sub)) = sub

\* Python's s.endswith(suf)
EndsWith(s, suf) ==
    /\ Len(s) >= Len(suf)
    /\ SubSeq(s, Len(s) - Len(suf) + 1, Len(s)) = suf

\* Python's str.lower(), on the letters the model uses in upper case
LowerChar(c) == CASE c = "F" -> "f" [] c = "S" -> "s" [] c = "D" -> "d" [] OTHER -> c

Lower(s) == [i \in 1..Len(s) |-> LowerChar(s[i])]

\* Index of the first c in s, 0 when there is none
IndexOf(s, c) ==
    IF \E i \in 1..Len(s) : s[i] = c
    THEN CHOOSE i \in 1..Len(s) : s[i] = c /\ \A j \in 1..(i - 1) : s[j] # c
    ELSE 0

\* Python's s.split(c, 1) for an s that holds c: the parts before and after
Before(s, c) == SubSeq(s, 1, IndexOf(s, c) - 1)
After(s, c) == SubSeq(s, IndexOf(s, c) + 1, Len(s))

\* Python's s.split(c)[0]
FirstPart(s, c) == IF IndexOf(s, c) = 0 THEN s ELSE Before(s, c)

RECURSIVE LStrip(_, _)
LStrip(s, c) == IF s # <<>> /\ Head(s) = c THEN LStrip(Tail(s), c) ELSE s

RECURSIVE RStrip(_, _)
RStrip(s, c) ==
    IF s # <<>> /\ s[Len(s)] = c THEN RStrip(SubSeq(s, 1, Len(s) - 1), c) ELSE s

\* Python's s.strip(c)
Strip(s, c) == RStrip(LStrip(s, c), c)

(***************************************************************************)
(* The `mount` command's output: one line per mounted file system,         *)
(* "<device> on <path> type <fstype> (<options>)"; a "short" line, as some *)
(* systems print it, ends after the path.                                  *)
(***************************************************************************)
Paths == {"slh", "slhfile", "data"}
FsTypes == {"cifs", "rclone", "ext4"}

TableEntry(p, t) == [path |-> p, fstype |-> t, fmt |-> "long"]

\* The tables a run can meet
Tables == SUBSET {TableEntry("slh", "cifs"), TableEntry("slh", "rclone"),
                  TableEntry("slhfile", "ext4")}

MountLine(m) ==
    IF m.fmt = "short"
    THEN Chars("dev") \o Chars(" on ") \o Chars(m.path)
    ELSE Chars("dev") \o Chars(" on ") \o Chars(m.path) \o Chars(" type ")
             \o Chars(m.fstype) \o Chars(" (rw)")

MountOutput(table) == {MountLine(m) : m \in table}

\* The paths that are mount points according to the table
MountPoints(table) == {m.path : m \in table}

\* The substring test CIFSBackend.is_mounted's comment warns against: any line
\* that contains the path counts
IsMountedBySubstring(local_path, table, query_ok) ==
    /\ query_ok
    /\ \E line \in MountOutput(table) : Contains(line, Chars(local_path))

\* An is_mounted that takes a failed query for a mounted path
MountedWhenQueryFails(local_path, table, query_ok) ==
    \/ ~query_ok
    \/ \E line \in MountOutput(table) :
          \/ Contains(line, Chars(" on ") \o Chars(local_path) \o Chars(" type "))
          \/ EndsWith(line, Chars(" on ") \o Chars(local_path))

\* CIFSBackend.is_mounted; query_ok = FALSE is the mount command failing
CifsIsMounted(local_path, table, query_ok) ==
    /\ query_ok
    /\ \E line \in MountOutput(table) :
          \/ Contains(line, Chars(" on ") \o Chars(local_path) \o Chars(" type "))
          \/ EndsWith(line, Chars(" on ") \o Chars(local_path))

\* RcloneBackend.is_mounted
RcloneIsMounted(local_path, table, query_ok) ==
    /\ query_ok
    /\ \E line \in MountOutput(table) : Contains(line, Chars(local_path))

\* The two is_mounted, worked out once for every table a run can meet
CifsIsMountedMemo ==
    [p \in Paths, t \in Tables, q \in BOOLEAN |-> CifsIsMounted(p, t, q)]
RcloneIsMountedMemo ==
    [p \in Paths, t \in Tables, q \in BOOLEAN |-> RcloneIsMounted(p, t, q)]

CifsIsMountedAt(local_path, table, query_ok) == CifsIsMountedMemo[local_path, table, query_ok]
RcloneIsMountedAt(local_path, table, query_ok) ==
    RcloneIsMountedMemo[local_path, table, query_ok]

(***************************************************************************)
(* GVFS: the gio listing and the gvfs runtime directory.                   *)
(* A member of gio is a mounted location [host, path]: `gio mount -l`      *)
(* prints "Mount(n): ... -> smb://<host><path>/" for it.  A member of      *)
(* gvfsdir is the name of an entry of the runtime directory.  None is <<>>. *)
(***************************************************************************)
None == <<>>

\* The text after "smb://" on the listing's line for location g
UrlText(g) == g.host \o g.path \o Chars("/")

\* A host text split into hostname and port (host.split(':', 1), default 445)
HostName(host) == IF IndexOf(host, ":") # 0 THEN Before(host, ":") ELSE host
HostPort(host) == IF IndexOf(host, ":") # 0 THEN After(host, ":") ELSE Chars("445")

\* GVFSBackend.parse_mount_info, for one line of the listing: the pattern's
\* group 1 is the text up to the first "/", group 2 the rest
ParseMountLine(url) ==
    LET host == FirstPart(url, "/")
        path == IF IndexOf(url, "/") = 0 THEN Chars("/")
                ELSE SubSeq(url, IndexOf(url, "/"), Len(url))
        share == IF Strip(path, "/") # <<>> THEN FirstPart(Strip(path, "/"), "/") ELSE <<>>
    IN  [hostname |-> Lower(HostName(host)), port |-> HostPort(host), share |-> Lower(share)]

\* GVFSBackend.parse_mount_info; query_ok = FALSE is `gio mount -l` failing
ParseMountInfo(giov, query_ok) ==
    IF query_ok THEN {ParseMountLine(UrlText(g)) : g \in giov} ELSE {}

\* GVFSBackend.get_expected_mount_point (the entry's name under gvfs_base_path)
GetExpectedMountPoint(hostname, port, share) ==
    Chars("smb-share:port=") \o port \o Chars(",server=") \o Lower(hostname)
        \o Chars(",share=") \o Lower(share)

\* GVFSBackend.find_gvfs_mount_point: the entries it may return (the first match
\* in the directory's iteration order, which the OS chooses); {} is None
FindGvfsMountPoint(hostname, port, share, dirv) ==
    {e \in dirv : Contains(Lower(e), GetExpectedMountPoint(hostname, port, share))}

\* GVFSBackend.is_mounted: the results (is_mounted, mount_point) it may give
GvfsIsMounted(host, share, giov, dirv, query_ok) ==
    LET hostname == HostName(host)
        port == HostPort(host)
        listed == \E m \in ParseMountInfo(giov, query_ok) :
                     /\ m.hostname = Lower(hostname)
                     /\ m.port = port
                     /\ m.share = Lower(share)
        found == FindGvfsMountPoint(hostname, port, share, dirv)
    IN  IF listed
        THEN IF found # {}
             THEN {[m |-> TRUE, mp |-> e] : e \in found}
             ELSE {[m |-> TRUE, mp |-> GetExpectedMountPoint(hostname, port, share)]}
        ELSE IF found # {}
             THEN {[m |-> TRUE, mp |-> e] : e \in found}
             ELSE {[m |-> FALSE, mp |-> None]}

\* The name of the directory entry the OS makes for a mounted location
EntryNameOf(g) ==
    LET m == ParseMountLine(UrlText(g))
    IN  GetExpectedMountPoint(m.hostname, m.port, m.share)

\* The location `gio mount smb://<host>/<share>` attaches: the share's root
ShareRoot(share) == FirstPart(share, "/")

\* The hosts, shares, listings and directories a run can meet, and
\* parse_mount_info's and is_mounted's results worked out once for each
GvfsHosts == {Chars("fs")}
GvfsShares == {Strip(Chars("/data"), "/"), Strip(Chars("/data/sub"), "/")}
DataShare == [host |-> Chars("fs"), path |-> Chars("/data")]
GioUniverse == {DataShare}
DirUniverse == {EntryNameOf(g) : g \in GioUniverse}

ParseMountLineMemo == [g \in GioUniverse |-> ParseMountLine(UrlText(g))]
EntryNameMemo == [g \in GioUniverse |-> EntryNameOf(g)]
GvfsIsMountedMemo ==
    [h \in GvfsHosts, s \in GvfsShares, gv \in SUBSET GioUniverse,
     dv \in SUBSET DirUniverse, q \in BOOLEAN |-> GvfsIsMounted(h, s, gv, dv, q)]

EntryName(g) == EntryNameMemo[g]
GvfsIsMountedAt(host, share, giov, dirv, query_ok) ==
    GvfsIsMountedMemo[host, share, giov, dirv, query_ok]

(***************************************************************************)
(* rclone remotes.                                                         *)
(***************************************************************************)
\* A bucket_from_remote_path that does not strip the slashes around the path
BucketWithoutStrip(remote_path) ==
    IF remote_path = <<>> \/ IndexOf(remote_path, ":") = 0
    THEN [ok |-> FALSE, bucket |-> <<"invalid bucket format">>]
    ELSE IF Before(remote_path, ":") = <<>>
         THEN [ok |-> FALSE, bucket |-> <<"missing remote name">>]
         ELSE [ok |-> TRUE, bucket |-> FirstPart(After(remote_path, ":"), "/")]

\* RcloneBackend.bucket_from_remote_path: [ok, bucket]; bucket is the error's
\* kind when ok is FALSE
BucketFromRemotePath(remote_path) ==
    IF remote_path = <<>> \/ IndexOf(remote_path, ":") = 0
    THEN [ok |-> FALSE, bucket |-> <<"invalid bucket format">>]
    ELSE LET remote_name == Before(remote_path, ":")
             path == After(remote_path, ":")
             bucket == Strip(path, "/")
         IN  IF remote_name = <<>>
             THEN [ok |-> FALSE, bucket |-> <<"missing remote name">>]
             ELSE [ok |-> TRUE, bucket |-> FirstPart(bucket, "/")]

(***************************************************************************)
(* The file system at the local paths.  A node is [kind, target]; target   *)
(* is the gvfs entry a symlink points at (None for the other kinds).       *)
(***************************************************************************)
Absent == [kind |-> "absent", target |-> None]
EmptyDir == [kind |-> "emptydir", target |-> None]
FullDir == [kind |-> "dir", target |-> None]
File == [kind |-> "file", target |-> None]
Symlink(t) == [kind |-> "symlink", target |-> t]

\* Path.exists(): follows a symlink, so a dangling symlink does not exist
Exists(p, fsv, dirv) ==
    IF fsv[p].kind = "symlink" THEN fsv[p].target \in dirv ELSE fsv[p].kind # "absent"

\* Path.is_symlink()
IsSymlink(p, fsv) == fsv[p].kind = "symlink"

\* Path.is_dir(): follows a symlink
IsDir(p, fsv, dirv) ==
    \/ fsv[p].kind \in {"emptydir", "dir"}
    \/ fsv[p].kind = "symlink" /\ fsv[p].target \in dirv

\* Path.rmdir() succeeds: an empty directory that nothing is mounted on
CanRmdir(p, fsv, table, fs_ok) ==
    fs_ok /\ fsv[p].kind = "emptydir" /\ p \notin MountPoints(table)

\* The code's "is_dir() and not any(iterdir())" followed by rmdir() and the
\* two mkdir calls; fs_ok = FALSE is the file system refusing (an OSError)
RemakeDir(p, fsv, dirv, table, fs_ok) ==
    IF Exists(p, fsv, dirv)
    THEN IF CanRmdir(p, fsv, table, fs_ok)
         THEN [ret |-> TRUE, fs |-> [fsv EXCEPT ![p] = EmptyDir]]
         ELSE [ret |-> FALSE, fs |-> fsv]
    ELSE IF fs_ok /\ fsv[p].kind = "absent"
         THEN [ret |-> TRUE, fs |-> [fsv EXCEPT ![p] = EmptyDir]]
         ELSE [ret |-> FALSE, fs |-> fsv]

\* GVFSBackend.establish_symlink (RcloneBackend.establish_symlink is the same)
EstablishSymlink(target_path, link_path, fsv, dirv, fs_ok) ==
    IF ~fs_ok
    THEN [ret |-> FALSE, fs |-> fsv]
    ELSE IF Exists(link_path, fsv, dirv)
         THEN IF IsSymlink(link_path, fsv) \/ fsv[link_path].kind = "emptydir"
              THEN [ret |-> TRUE, fs |-> [fsv EXCEPT ![link_path] = Symlink(target_path)]]
              ELSE [ret |-> FALSE, fs |-> fsv]
         ELSE IF fsv[link_path].kind = "absent"
              THEN [ret |-> TRUE, fs |-> [fsv EXCEPT ![link_path] = Symlink(target_path)]]
              ELSE [ret |-> FALSE, fs |-> fsv]    \* symlink_to: FileExistsError

\* CIFSBackend.establish_mount_point
CifsEstablishMountPoint(mount_path, fsv, dirv, table, query_ok, fs_ok) ==
    IF Exists(mount_path, fsv, dirv) /\ CifsIsMountedAt(mount_path, table, query_ok)
    THEN [ret |-> FALSE, fs |-> fsv]
    ELSE RemakeDir(mount_path, fsv, dirv, table, fs_ok)

(***************************************************************************)
(* Backend calls that end in one step.  Each gives the returned value      *)
(* ("True", "False", "None"), the OS state it leaves and the commands it   *)
(* issued, as <<name, succeeded>> pairs.                                   *)
(***************************************************************************)
Bool(b) == IF b THEN "True" ELSE "False"

\* What `umount`/`fusermount -u` leave of the table when the unmount succeeds
Detach(p, table) == {m \in table : m.path # p}

\* RcloneBackend.umount; cmd_ok is fusermount's outcome, which can only be
\* success when local_path is a mount point
RcloneUmount(local_path, remote_path, table, query_ok, cmd_ok) ==
    LET done == cmd_ok /\ local_path \in MountPoints(table)
    IN  IF ~BucketFromRemotePath(remote_path).ok
        THEN [ret |-> "False", mtab |-> table, cmds |-> <<>>]
        ELSE IF ~RcloneIsMountedAt(local_path, table, query_ok)
             THEN [ret |-> "True", mtab |-> table, cmds |-> <<>>]
             ELSE [ret |-> Bool(done),
                   mtab |-> IF done THEN Detach(local_path, table) ELSE table,
                   cmds |-> <<<<"fusermount -u", done>>>>]

\* CIFSBackend.umount; cmd_ok is `sudo umount`'s outcome
CifsUmount(local_path, table, query_ok, cmd_ok) ==
    LET done == cmd_ok /\ local_path \in MountPoints(table)
    IN  IF ~CifsIsMountedAt(local_path, table, query_ok)
        THEN [ret |-> "True", mtab |-> table, cmds |-> <<>>]
        ELSE [ret |-> Bool(done),
              mtab |-> IF done THEN Detach(local_path, table) ELSE table,
              cmds |-> <<<<"sudo umount", done>>>>]

\* RcloneBackend.establish_mount_point: when the path is reported mounted it
\* calls umount, ignores its result, and goes on to mkdir the directory that
\* is still there (FileExistsError, an OSError)
RcloneEstablishMountPoint(mount_path, remote_path, fsv, dirv, table, q1, q2, fs_ok, cmd_ok) ==
    IF Exists(mount_path, fsv, dirv) /\ RcloneIsMountedAt(mount_path, table, q1)
    THEN LET u == RcloneUmount(mount_path, remote_path, table, q2, cmd_ok)
         IN  [ret |-> FALSE, fs |-> fsv, mtab |-> u.mtab, cmds |-> u.cmds]
    ELSE LET r == RemakeDir(mount_path, fsv, dirv, table, fs_ok)
         IN  [ret |-> r.ret, fs |-> r.fs, mtab |-> table, cmds |-> <<>>]

\* The mounted locations `gio mount --unmount smb://<host>/<share>` names
GioNamed(host, share, giov) ==
    {g \in giov : ParseMountLineMemo[g] =
                    [hostname |-> Lower(HostName(host)), port |-> HostPort(host),
                     share |-> Lower(share)]}

\* An umount that removes the symlink last, and only once the share is gone
GvfsUmountLinkLast(hostname, share, local_path, fsv, giov, dirv, query_ok, fs_ok, cmd_ok) ==
    LET named == GioNamed(hostname, share, giov)
        done == cmd_ok /\ named # {}
        fs1 == IF IsSymlink(local_path, fsv) /\ fs_ok /\ done
               THEN [fsv EXCEPT ![local_path] = Absent] ELSE fsv
    IN  IF \A r \in GvfsIsMountedAt(hostname, share, giov, dirv, query_ok) : ~r.m
        THEN [ret |-> "True", fs |-> fsv, gio |-> giov, gvfsdir |-> dirv, cmds |-> <<>>]
        ELSE [ret |-> Bool(done), fs |-> fs1,
              gio |-> IF done THEN giov \ named ELSE giov,
              gvfsdir |-> IF done THEN dirv \ {EntryName(g) : g \in named} ELSE dirv,
              cmds |-> <<<<"gio mount --unmount", done>>>>]

\* GVFSBackend.umount; fs_ok is the unlink's outcome, cmd_ok the unmount
\* command's, which can only be success when the location is mounted
GvfsUmount(hostname, share, local_path, fsv, giov, dirv, query_ok, fs_ok, cmd_ok) ==
    LET fs1 == IF IsSymlink(local_path, fsv) /\ fs_ok
               THEN [fsv EXCEPT ![local_path] = Absent] ELSE fsv
        named == GioNamed(hostname, share, giov)
        done == cmd_ok /\ named # {}
    IN  IF \A r \in GvfsIsMountedAt(hostname, share, giov, dirv, query_ok) : ~r.m
        THEN [ret |-> "True", fs |-> fs1, gio |-> giov, gvfsdir |-> dirv, cmds |-> <<>>]
        ELSE [ret |-> Bool(done), fs |-> fs1,
              gio |-> IF done THEN giov \ named ELSE giov,
              gvfsdir |-> IF done THEN dirv \ {EntryName(g) : g \in named} ELSE dirv,
              cmds |-> <<<<"gio mount --unmount", done>>>>]

(***************************************************************************)
(* Configurations.  A mount spec holds the fields the code reads; keys is  *)
(* the set of optional keys the spec carries.                              *)
(***************************************************************************)
MountSpec(b, h, s, r, l, k) ==
    [backend |-> b, host |-> h, share |-> s, remote |-> r, local |-> l, keys |-> k]

Catalog ==
    { MountSpec("cifs", "fileserver:445", "/data", "", "slh", {}),
      MountSpec("s3", "", "", "r:/bucket/sub", "slh", {"config"}),
      MountSpec("s3", "", "", "r:/bucket/sub", "slh", {}),
      MountSpec("s3", "", "", "remote", "slh", {"config"}),
      MountSpec("gvfs", "fs", "/data", "", "data", {"comment"}),
      MountSpec("gvfs", "fs", "/data/sub", "", "data", {"comment"}),
      MountSpec("gvfs", "fs", "/data", "", "data", {}),
      MountSpec("nfs", "fs", "/data", "", "slh", {"backend"}) }

Configs == UNION {[1..n -> Catalog] : n \in 1..MaxMounts}

\* mount_manager.py's backend tags and self.backends
BACKEND_GVFS == "gvfs"
BACKEND_S3 == "s3"
BACKEND_CIFS == "cifs"
Backends == {BACKEND_GVFS, BACKEND_S3, BACKEND_CIFS}

Uses(cfg, bs) == \E i \in 1..Len(cfg) : cfg[i].backend \in bs

\* Is the spec's share mounted, according to the OS itself
OsMounted(c, table, giov) ==
    IF c.backend = BACKEND_GVFS
    THEN [host |-> Chars(c.host),
          path |-> Chars("/") \o ShareRoot(Strip(Chars(c.share), "/"))] \in giov
    ELSE c.local \in MountPoints(table)

(***************************************************************************)
(* The run: main calls process_mounts, which walks the declared mounts.    *)
(***************************************************************************)
NoProbe == [call |-> "none"]

\* The OS states a run starts in.  For /mnt/slh: the mount table and the node
\* at the path; for /mnt/data: the gio listing, the gvfs directory and the node
SlhStarts(cfg) ==
    IF Uses(cfg, {BACKEND_CIFS, BACKEND_S3})
    THEN {[mtab |-> {}, node |-> Absent],
          [mtab |-> {}, node |-> EmptyDir],
          [mtab |-> {}, node |-> FullDir],
          [mtab |-> {TableEntry("slh", "cifs")}, node |-> FullDir],
          [mtab |-> {TableEntry("slhfile", "ext4")}, node |-> Absent]}
    ELSE {[mtab |-> {}, node |-> Absent]}
DataStarts(cfg) ==
    IF Uses(cfg, {BACKEND_GVFS})
    THEN {[gio |-> {}, gvfsdir |-> {}, node |-> Absent],
          [gio |-> {}, gvfsdir |-> {}, node |-> FullDir],
          [gio |-> {}, gvfsdir |-> {}, node |-> Symlink(Chars("old"))],
          [gio |-> {DataShare}, gvfsdir |-> {}, node |-> Absent],
          [gio |-> {DataShare}, gvfsdir |-> {EntryName(DataShare)}, node |-> Absent],
          [gio |-> {DataShare}, gvfsdir |-> {EntryName(DataShare)},
           node |-> Symlink(EntryName(DataShare))],
          [gio |-> {DataShare}, gvfsdir |-> {EntryName(DataShare)},
           node |-> Symlink(Chars("old"))]}
    ELSE {[gio |-> {}, gvfsdir |-> {}, node |-> Absent]}

\* The value a spec of the catalog gives its optional 'backend' key: the
\* helper executable its kind of mount needs
BackendKey(c) ==
    CASE c.backend = "nfs" -> "mount.nfs"
      [] c.backend = BACKEND_CIFS -> "mount.cifs"
      [] c.backend = BACKEND_S3 -> "rclone"
      [] OTHER -> "gio"

\* The executables a run may find absent: none, or mount.cifs when a cifs
\* mount is declared, or the one a spec names under 'backend'
MissingStarts(cfg) ==
    {{}} \cup {{"mount.cifs"} : i \in {k \in 1..Len(cfg) : cfg[k].backend = BACKEND_CIFS}}
         \cup {{BackendKey(cfg[i])} : i \in {k \in 1..Len(cfg) : "backend" \in cfg[k].keys}}

\* The record of one declared mount's handling: what the orchestrator called
\* (call), establish_mount_point's result (est), the call's returned value
\* (ret), whether the OS had the share mounted before (mounted), the number of
\* polls after which the table showed a new cifs mount (delay), and what the
\* handling added to success_count (ds) and failure_count (df), and whether
\* the `mount`/`gio mount -l` query the handling began with was answered
\* (query_ok).  While a cifs mount is under way, ret is "running".
Handling(b, call, est, ret, mounted, d, ds, df, q) ==
    [backend |-> b, call |-> call, est |-> est, ret |-> ret, mounted |-> mounted,
     delay |-> d, ds |-> ds, df |-> df, query_ok |-> q]

\* Nothing written to the credentials temp file nor to gio's pseudo-terminal
NoSent == [file |-> <<>>, pty |-> <<>>]

NoCall == Handling("none", "none", "na", "na", FALSE, 0, 0, 0, TRUE)

\* What a pass has done so far: did every mount command succeed (mounts_ok),
\* the number of unmount commands issued, and was every share handled absent
\* from the OS when its turn came (absent)
NoTally == [mounts_ok |-> TRUE, n_umount |-> 0, absent |-> TRUE]

Init ==
    /\ config \in Configs
    /\ missing \in MissingStarts(config)
    /\ umount_only \in BOOLEAN
    /\ pc = "load"
    /\ idx = 1
    /\ success_count = 0
    /\ failure_count = 0
    /\ \E a \in SlhStarts(config), d \in DataStarts(config) :
          /\ mtab = a.mtab
          /\ gio = d.gio
          /\ gvfsdir = d.gvfsdir
          /\ fs = [p \in Paths |->
                     CASE p = "slh" -> a.node
                       [] p = "slhfile" ->
                            IF "slhfile" \in MountPoints(a.mtab) THEN FullDir ELSE Absent
                       [] OTHER -> d.node]
    /\ tmpfile = FALSE
    /\ cmds = <<>>
    /\ last = NoCall
    /\ run = NoTally
    /\ pass = 1
    /\ exit_code = "none"
    /\ probe = NoProbe
    /\ argv = <<>>
    /\ sent = NoSent

Cur == config[idx]
InLoop == pc = "loop" /\ idx <= Len(config)

Rec(call, est, ret, mounted, d, ds, df, q) ==
    Handling(Cur.backend, call, est, ret, mounted, d, ds, df, q)

\* The commands a call issued, as they are logged
Issued(list) == [k \in 1..Len(list) |-> [name |-> list[k][1], ok |-> list[k][2]]]

\* The names of the commands that mount, and of those that unmount
MountCommands == {"sudo mount", "gio mount", "rclone mount"}
UmountCommands == {"sudo umount", "gio mount --unmount", "fusermount -u"}

Tally(h, list) ==
    [mounts_ok |-> run.mounts_ok
                   /\ \A k \in 1..Len(list) : list[k][1] \in MountCommands => list[k][2],
     n_umount |-> run.n_umount
                  + Cardinality({k \in 1..Len(list) : list[k][1] \in UmountCommands}),
     absent   |-> run.absent /\ ~h.mounted]

\* pass_manager.password, which main has made sure is not empty in mount mode
password == "<password>"

\* CIFSBackend.mount: the lines written to the credentials temp file
CredentialsFile(pw, user, domain) ==
    IF pw # ""
    THEN << <<"password=", pw>>, <<"username=", user>>, <<"domain=", domain>> >>
    ELSE <<>>

\* A mount command that carries the password among its options
CifsMountCmdWithPassword(c, pw) ==
    << <<"/bin/sudo">>, <<"mount">>, <<"-t">>, <<"cifs">>,
       <<"//", c.host, c.share>>, <<c.local>>,
       <<"-o">>, <<"username=", "<user>", ",password=", pw>> >>

\* CIFSBackend.mount: the mount command, one argument after the other, each a
\* sequence of the pieces of text it is made of, a piece being a literal or
\* the value it is taken from (c.host stands for the part of the host text
\* used: the server in the UNC path, the port in the options).  The specs of
\* the catalog carry neither 'domain' nor 'options'.
CifsMountCmd(c, pw) ==
    LET mount_options == <<"credentials=", "<temp_file.name>">>
    IN  << <<"/bin/sudo">>, <<"mount">>, <<"-t">>, <<"cifs">>,
           <<"//", c.host, c.share>>, <<c.local>>,
           <<"-o">>,
           IF IndexOf(Chars(c.host), ":") # 0
           THEN <<"port=", c.host, ",">> \o mount_options
           ELSE mount_options >>

\* The argument list of each command the backends start, for mount spec c
Argv(name, c) ==
    CASE name = "sudo mount" -> CifsMountCmd(c, password)
      [] name = "sudo umount" -> << <<"/bin/sudo">>, <<"umount">>, <<c.local>> >>
      [] name = "gio mount" ->
             << <<"gio">>, <<"mount">>, <<"smb://", c.host, "/", c.share>> >>
      [] name = "gio mount --unmount" ->
             << <<"gio">>, <<"mount">>, <<"--unmount">>,
                <<"smb://", c.host, "/", c.share>> >>
      [] name = "rclone mount" ->
             << <<"rclone">>, <<"mount">>, <<"--config">>, <<"<config>">>, <<c.remote>>,
                <<c.local>>, <<"--vfs-cache-mode">>, <<"full">>, <<"--daemon">> >>
      [] name = "fusermount -u" -> << <<"fusermount">>, <<"-u">>, <<c.local>> >>

\* The argument lists of the commands a call started
Started(list) == [k \in 1..Len(list) |-> Argv(list[k][1], Cur)]

\* The prompts `gio mount` may print before it ends
PromptSeqs == {<<>>, <<"Authentication Required", "User", "Domain", "Password:">>}

\* GVFSBackend.mount's expect loop: what is sent to the pseudo-terminal at
\* each prompt (nothing at 'Authentication Required')
GioDialogue(prompts, username, domain, pw) ==
    [k \in 1..Len(prompts) |->
        [prompt |-> prompts[k],
         line |-> CASE prompts[k] = "User" -> <<username>>
                    [] prompts[k] = "Domain" -> <<domain>>
                    [] prompts[k] = "Password:" -> <<pw>>
                    [] OTHER -> <<>>]]

\* The for loop goes on to the next declared mount
Continue(h, list) ==
    /\ success_count' = success_count + h.ds
    /\ failure_count' = failure_count + h.df
    /\ idx' = idx + 1
    /\ last' = h
    /\ cmds' = Issued(list)
    /\ argv' = Started(list)
    /\ run' = Tally(h, list)
    /\ pc' = "loop"
    /\ exit_code' = exit_code

\* A backend call raised: nothing in process_mounts or main catches a
\* KeyError, and the interpreter ends the process with status 1
Raise(h, list) ==
    /\ success_count' = success_count + h.ds
    /\ failure_count' = failure_count + h.df
    /\ idx' = idx
    /\ last' = h
    /\ cmds' = Issued(list)
    /\ argv' = Started(list)
    /\ run' = Tally(h, list)
    /\ pc' = "raised"
    /\ exit_code' = 1

\* A tally that takes every call for a success
CountedAsSuccess(call, est, ret, mounted, q) == Rec(call, est, ret, mounted, 0, 1, 0, q)

\* `if backend_instance.<call>(...): success_count += 1 else: failure_count += 1`
Counted(call, est, ret, mounted, q) ==
    IF ret = "True" THEN Rec(call, est, ret, mounted, 0, 1, 0, q)
    ELSE Rec(call, est, ret, mounted, 0, 0, 1, q)

\* load_config: the file is opened and parsed (file_ok = FALSE: it is not
\* there, or is not JSON), and every spec that carries a 'backend' key has the
\* executable it names looked up with shutil.which.  Either failure is a
\* ValueError, which main reports as a configuration error, returning 1.
LoadConfig ==
    /\ pc = "load"
    /\ \E file_ok \in BOOLEAN :
          IF /\ file_ok
             /\ \A i \in 1..Len(config) :
                   "backend" \in config[i].keys => BackendKey(config[i]) \notin missing
          THEN pc' = "loop" /\ exit_code' = exit_code
          ELSE pc' = "config_error" /\ exit_code' = 1
    /\ UNCHANGED <<config, missing, umount_only, idx, success_count, failure_count, mtab,
                   gio, gvfsdir, fs, tmpfile, cmds, last, run, pass, probe>>
    /\ UNCHANGED <<argv, sent>>

\* process_mounts: `if backend not in self.backends: warning; continue`
SkipUnsupported ==
    /\ InLoop
    /\ Cur.backend \notin Backends
    /\ idx' = idx + 1
    /\ last' = Rec("skip", "na", "na", FALSE, 0, 0, 0, TRUE)
    /\ cmds' = <<>>
    /\ UNCHANGED <<config, missing, umount_only, pc, success_count, failure_count, mtab, gio,
                   gvfsdir, fs, tmpfile, run, pass, exit_code, probe>>
    /\ argv' = <<>>
    /\ sent' = NoSent

\* process_mounts, umount_only, one gvfs mount
UmountGvfs ==
    /\ InLoop /\ umount_only /\ Cur.backend = BACKEND_GVFS
    /\ \E query_ok \in BOOLEAN, fs_ok \in BOOLEAN, cmd_ok \in BOOLEAN :
          LET u == GvfsUmount(Chars(Cur.host), Strip(Chars(Cur.share), "/"), Cur.local,
                              fs, gio, gvfsdir, query_ok, fs_ok, cmd_ok)
          IN  /\ fs' = u.fs
              /\ gio' = u.gio
              /\ gvfsdir' = u.gvfsdir
              /\ Continue(Counted("umount", "na", u.ret, OsMounted(Cur, mtab, gio), query_ok),
                          u.cmds)
    /\ UNCHANGED <<config, missing, umount_only, mtab, tmpfile, pass, probe>>
    /\ sent' = NoSent

\* process_mounts, umount_only, one s3 mount
UmountS3 ==
    /\ InLoop /\ umount_only /\ Cur.backend = BACKEND_S3
    /\ \E query_ok \in BOOLEAN, cmd_ok \in BOOLEAN :
          LET u == RcloneUmount(Cur.local, Chars(Cur.remote), mtab, query_ok, cmd_ok)
          IN  /\ mtab' = u.mtab
              /\ Continue(Counted("umount", "na", u.ret, OsMounted(Cur, mtab, gio), query_ok),
                          u.cmds)
    /\ UNCHANGED <<config, missing, umount_only, gio, gvfsdir, fs, tmpfile, pass, probe>>
    /\ sent' = NoSent

\* process_mounts, umount_only, one cifs mount
UmountCifs ==
    /\ InLoop /\ umount_only /\ Cur.backend = BACKEND_CIFS
    /\ \E query_ok \in BOOLEAN, cmd_ok \in BOOLEAN :
          LET u == CifsUmount(Cur.local, mtab, query_ok, cmd_ok)
          IN  /\ mtab' = u.mtab
              /\ Continue(Counted("umount", "na", u.ret, OsMounted(Cur, mtab, gio), query_ok),
                          u.cmds)
    /\ UNCHANGED <<config, missing, umount_only, gio, gvfsdir, fs, tmpfile, pass, probe>>
    /\ sent' = NoSent

\* How the interactive `gio mount` can end: EOF with exit status 0, EOF with
\* another status, no prompt within the timeout, or an exception from pexpect
GioOutcomes == {"eof0", "eof1", "timeout", "exception"}

\* GVFSBackend.mount once `gio mount` ended with status 0 and the OS holds the
\* new location: the symlink is made to the mount point is_mounted gives (at the
\* first check, or at the second one two seconds later), else to the expected one
GvfsLink(host, share_root, local_path, fsv, giov, dirv, r1, r2, fs_ok) ==
    LET expected_mount == GetExpectedMountPoint(HostName(host), HostPort(host), share_root)
        target == IF r1.m
                  THEN IF r1.mp # None THEN r1.mp ELSE expected_mount
                  ELSE IF r2.m /\ r2.mp # None THEN r2.mp ELSE expected_mount
    IN  EstablishSymlink(target, local_path, fsv, dirv, fs_ok)

\* process_mounts, mount mode, one gvfs mount
MountGvfs ==
    /\ InLoop /\ ~umount_only /\ Cur.backend = BACKEND_GVFS
    /\ LET host == Chars(Cur.host)
           share == Strip(Chars(Cur.share), "/")
           share_root == ShareRoot(share)
           was == OsMounted(Cur, mtab, gio)
       IN  \E query_ok \in BOOLEAN, fs_ok \in BOOLEAN :
           \E r \in GvfsIsMountedAt(host, share, gio, gvfsdir, query_ok) :
              IF r.m
              THEN \* already mounted: make sure the symlink is there
                   LET l == EstablishSymlink(r.mp, Cur.local, fs, gvfsdir, fs_ok)
                   IN  /\ fs' = l.fs
                       /\ Continue(Counted("link", "na", Bool(r.mp # None /\ l.ret), was,
                                           query_ok), <<>>)
                       /\ sent' = NoSent
                       /\ UNCHANGED <<gio, gvfsdir>>
              ELSE IF "comment" \notin Cur.keys
              THEN \* GVFSBackend.mount: config['comment'], before the try
                   /\ Raise(Rec("mount", "na", "KeyError", was, 0, 0, 0, query_ok), <<>>)
                   /\ sent' = NoSent
                   /\ UNCHANGED <<fs, gio, gvfsdir>>
              ELSE \E out \in GioOutcomes, prompts \in PromptSeqs :
                  /\ out = "exception" => prompts = <<>>
                  /\ sent' = [file |-> <<>>,
                              pty |-> GioDialogue(prompts, "<user>", "<domain>", password)]
                  /\
                   IF out = "eof0"
                   THEN \E entry \in BOOLEAN, q1 \in BOOLEAN, q2 \in BOOLEAN :
                        LET g == [host |-> host, path |-> Chars("/") \o share_root]
                            gio1 == gio \cup {g}
                            dir1 == IF entry THEN gvfsdir \cup {EntryName(g)} ELSE gvfsdir
                        IN  \E r1 \in GvfsIsMountedAt(host, share_root, gio1, dir1, q1),
                               r2 \in GvfsIsMountedAt(host, share_root, gio1, dir1, q2) :
                            LET l == GvfsLink(host, share_root, Cur.local, fs, gio1, dir1,
                                              r1, r2, fs_ok)
                            IN  /\ fs' = l.fs
                                /\ gio' = gio1
                                /\ gvfsdir' = dir1
                                /\ Continue(Counted("mount", "na", Bool(l.ret), was, query_ok),
                                            <<<<"gio mount", TRUE>>>>)
                   ELSE /\ Continue(Counted("mount", "na", "False", was, query_ok),
                                    IF out = "exception" THEN <<>>
                                    ELSE <<<<"gio mount", FALSE>>>>)
                        /\ UNCHANGED <<fs, gio, gvfsdir>>
    /\ UNCHANGED <<config, missing, umount_only, mtab, tmpfile, pass, probe>>

\* RcloneBackend.mount for a spec that carries 'config': cmd_ok is the outcome
\* of `rclone mount --daemon`, which can only be success on a directory
RcloneMount(local_path, fsv, dirv, table, cmd_ok) ==
    LET done == cmd_ok /\ IsDir(local_path, fsv, dirv)
    IN  [ret |-> IF done THEN "None" ELSE "False",
         mtab |-> IF done THEN table \cup {TableEntry(local_path, "rclone")} ELSE table,
         cmds |-> <<<<"rclone mount", done>>>>]

\* process_mounts, mount mode, one s3 mount
MountS3 ==
    /\ InLoop /\ ~umount_only /\ Cur.backend = BACKEND_S3
    /\ LET was == OsMounted(Cur, mtab, gio)
       IN  \E query_ok \in BOOLEAN :
           IF RcloneIsMountedAt(Cur.local, mtab, query_ok)
           THEN /\ Continue(Rec("none", "na", "na", was, 0, 0, 0, query_ok), <<>>)
                /\ UNCHANGED <<fs, mtab>>
           ELSE \E q1 \in BOOLEAN, q2 \in BOOLEAN, fs_ok \in BOOLEAN, u_ok \in BOOLEAN,
                   cmd_ok \in BOOLEAN :
                LET e == RcloneEstablishMountPoint(Cur.local, Chars(Cur.remote), fs, gvfsdir,
                                                   mtab, q1, q2, fs_ok, u_ok)
                    m == RcloneMount(Cur.local, e.fs, gvfsdir, e.mtab, cmd_ok)
                    ds == IF e.ret THEN 1 ELSE 0
                IN  /\ fs' = e.fs
                    /\ IF "config" \notin Cur.keys
                       THEN \* RcloneBackend.mount: config['config']
                            /\ mtab' = e.mtab
                            /\ Raise(Rec("mount", Bool(e.ret), "KeyError", was, 0, ds, 1 - ds,
                                         query_ok), e.cmds)
                       ELSE /\ mtab' = m.mtab
                            /\ Continue(Rec("mount", Bool(e.ret), m.ret, was, 0,
                                            ds + (IF m.ret = "True" THEN 1 ELSE 0),
                                            (1 - ds) + (IF m.ret = "True" THEN 0 ELSE 1),
                                            query_ok),
                                        e.cmds \o m.cmds)
    /\ UNCHANGED <<config, missing, umount_only, gio, gvfsdir, tmpfile, pass, probe>>
    /\ sent' = NoSent

\* CIFSBackend.mount: max_retries
max_retries == 5

\* The exit statuses of `sudo mount -t cifs` the code tells apart
MountExitCodes == {0, 32, 5, 115, 1}

\* process_mounts, mount mode, one cifs mount: is_mounted, establish_mount_point
\* and CIFSBackend.mount up to the creation of the credentials temp file
\* (tmp_ok = FALSE: NamedTemporaryFile raises, and mount returns False)
MountCifs ==
    /\ InLoop /\ ~umount_only /\ Cur.backend = BACKEND_CIFS
    /\ LET was == OsMounted(Cur, mtab, gio)
       IN  \E query_ok \in BOOLEAN :
           IF CifsIsMountedAt(Cur.local, mtab, query_ok)
           THEN /\ Continue(Rec("none", "na", "na", was, 0, 1, 0, query_ok), <<>>)
                /\ UNCHANGED <<fs, tmpfile>>
           ELSE \E q1 \in BOOLEAN, fs_ok \in BOOLEAN, tmp_ok \in BOOLEAN :
                LET e == CifsEstablishMountPoint(Cur.local, fs, gvfsdir, mtab, q1, fs_ok)
                IN  /\ fs' = e.fs
                    /\ IF ~e.ret
                       THEN /\ Continue(Rec("establish", "False", "na", was, 0, 0, 1, query_ok),
                                        <<>>)
                            /\ UNCHANGED tmpfile
                       ELSE IF ~tmp_ok
                       THEN /\ Continue(Rec("mount", "True", "False", was, 0, 0, 1,
                                            query_ok), <<>>)
                            /\ UNCHANGED tmpfile
                       ELSE /\ tmpfile' = TRUE
                            /\ pc' = "cifs_write"
                            /\ last' = Rec("mount", "True", "running", was, 0, 0, 0,
                                           query_ok)
                            /\ cmds' = <<>>
                            /\ argv' = <<>>
                            /\ UNCHANGED <<idx, success_count, failure_count, run,
                                           exit_code>>
    /\ UNCHANGED <<config, missing, umount_only, mtab, gio, gvfsdir, pass, probe>>
    /\ sent' = NoSent

\* CIFSBackend.mount, from the temp file's creation to the inner try: the
\* credentials are written, the file is closed, the options and the command are
\* built (write_ok = FALSE: a write or the close raises, and the outer
\* `except Exception` returns False)
CifsWrite ==
    /\ pc = "cifs_write"
    /\ \E write_ok \in BOOLEAN :
          IF write_ok
          THEN /\ pc' = "cifs_run"
               /\ sent' = [file |-> CredentialsFile(password, "<user>", "<domain>"),
                           pty |-> <<>>]
               /\ UNCHANGED <<idx, success_count, failure_count, last, cmds, run,
                              exit_code, argv>>
          ELSE /\ Continue(Rec("mount", "True", "False", last.mounted, 0, 0, 1,
                               last.query_ok), <<>>)
               /\ sent' = NoSent
    /\ UNCHANGED <<config, missing, umount_only, mtab, gio, gvfsdir, fs, tmpfile, pass, probe>>

\* A poll loop that polls once more than max_retries
PollLoopOneMore(attempt, d) ==
    IF d <= max_retries THEN [ret |-> TRUE, polls |-> d + 1]
    ELSE [ret |-> FALSE, polls |-> max_retries + 1]

\* A poll loop that gives up one poll early
PollLoopOneShort(attempt, d) ==
    IF d < max_retries - 1 THEN [ret |-> TRUE, polls |-> d + 1]
    ELSE [ret |-> FALSE, polls |-> max_retries - 1]

\* CIFSBackend.mount's `for attempt in range(max_retries)`: the table shows the
\* mount from poll number d on (polls are numbered from 0).  Gives the returned
\* value and the number of polls made.
RECURSIVE PollLoop(_, _)
PollLoop(attempt, d) ==
    IF attempt >= max_retries THEN [ret |-> FALSE, polls |-> attempt]
    ELSE IF attempt >= d THEN [ret |-> TRUE, polls |-> attempt + 1]
         ELSE PollLoop(attempt + 1, d)

\* CIFSBackend.mount's inner try: subprocess.run of the mount command, the
\* polls, and the finally clause.  A status other than 0 is a
\* CalledProcessError.  After status 0 the OS attaches the share, and the table
\* shows it after d polls.
CifsRun ==
    /\ pc = "cifs_run"
    /\ \E code \in MountExitCodes, d \in 0..MaxPollDelay :
          LET p == PollLoop(0, d)
          IN  /\ "mount.cifs" \in missing => code # 0
              /\ tmpfile' = FALSE
              /\ IF code = 0
                 THEN /\ mtab' = mtab \cup {TableEntry(Cur.local, "cifs")}
                      /\ Continue(Rec("mount", "True", Bool(p.ret), last.mounted, d,
                                      IF p.ret THEN 1 ELSE 0, IF p.ret THEN 0 ELSE 1,
                                      last.query_ok),
                                  <<<<"sudo mount", TRUE>>>>)
                 ELSE /\ d = 0
                      /\ Continue(Rec("mount", "True", "False", last.mounted, 0, 0, 1,
                                      last.query_ok),
                                  <<<<"sudo mount", FALSE>>>>)
                      /\ UNCHANGED mtab
    /\ UNCHANGED <<config, missing, umount_only, gio, gvfsdir, fs, pass, probe>>
    /\ sent' = sent

\* An exit code that is 0 whatever the counts
ExitCodeAlwaysZero(sc) == 0

\* gmount.py main: `return 0 if success_count > 0 else 1`
ExitCode(sc) == IF sc > 0 THEN 0 ELSE 1

\* process_mounts returns (success_count, failure_count) and main ends
Return ==
    /\ pc = "loop" /\ idx > Len(config)
    /\ pc' = "done"
    /\ exit_code' = ExitCode(success_count)
    /\ UNCHANGED <<config, missing, umount_only, idx, success_count, failure_count, mtab, gio,
                   gvfsdir, fs, tmpfile, cmds, last, run, pass, probe>>
    /\ UNCHANGED <<argv, sent>>

\* After a mount-mode run in which every mount command succeeded and which left
\* every declared share mounted, the program is run once more, with the same
\* arguments, on the OS state the run left
SecondPass ==
    /\ pc = "done" /\ pass = 1 /\ ~umount_only /\ run.mounts_ok
    /\ Len(config) <= MaxRerunMounts
    /\ \A i \in 1..Len(config) :
          config[i].backend \in Backends => OsMounted(config[i], mtab, gio)
    /\ pass' = 2
    /\ pc' = "load"
    /\ idx' = 1
    /\ success_count' = 0
    /\ failure_count' = 0
    /\ exit_code' = "none"
    /\ last' = NoCall
    /\ cmds' = <<>>
    /\ run' = NoTally
    /\ UNCHANGED <<config, missing, umount_only, mtab, gio, gvfsdir, fs, tmpfile, probe>>
    /\ argv' = <<>>
    /\ sent' = NoSent

\* Is the program inside CIFSBackend.mount's inner try (whose finally clause
\* removes the temp file)
InInnerTry == pc = "cifs_run"

\* SIGINT while a cifs mount of the first run is under way: break_handler calls
\* sys.exit(1); the SystemExit unwinds the stack, running the finally clauses it
\* passes (`except Exception` does not catch it).  The record keeps where the
\* run was (ret).
Interrupt ==
    /\ pass = 1
    /\ pc \in {"cifs_write", "cifs_run"}
    /\ pc' = "exited"
    /\ exit_code' = 1
    /\ tmpfile' = IF InInnerTry THEN FALSE ELSE tmpfile
    /\ last' = Handling("none", "interrupt", "na", pc, FALSE, 0, 0, 0, TRUE)
    /\ UNCHANGED <<config, missing, umount_only, idx, success_count, failure_count, mtab, gio,
                   gvfsdir, fs, cmds, run, pass, probe>>
    /\ UNCHANGED <<argv, sent>>

Next ==
    \/ LoadConfig
    \/ SkipUnsupported
    \/ UmountGvfs
    \/ UmountS3
    \/ UmountCifs
    \/ MountGvfs
    \/ MountS3
    \/ MountCifs
    \/ CifsWrite
    \/ CifsRun
    \/ Return
    \/ SecondPass
    \/ Interrupt

Spec == Init /\ [][Next]_vars

(***************************************************************************)
(* The two is_mounted tests on their own: a mount table is drawn, and one  *)
(* backend's is_mounted is called on one path.                             *)
(***************************************************************************)
ProbeEntries ==
    {TableEntry("slh", "cifs"), TableEntry("slhfile", "ext4"), TableEntry("data", "rclone"),
     [path |-> "slh", fstype |-> "cifs", fmt |-> "short"],
     [path |-> "slhfile", fstype |-> "ext4", fmt |-> "short"]}

InitProbe ==
    /\ config = <<>>
    /\ missing = {}
    /\ umount_only = FALSE
    /\ pc = "probe"
    /\ idx = 1
    /\ success_count = 0
    /\ failure_count = 0
    /\ mtab \in SUBSET ProbeEntries
    /\ gio = {}
    /\ gvfsdir = {}
    /\ fs = [p \in Paths |-> IF p \in MountPoints(mtab) THEN FullDir ELSE Absent]
    /\ tmpfile = FALSE
    /\ cmds = <<>>
    /\ last = NoCall
    /\ run = NoTally
    /\ pass = 1
    /\ exit_code = "none"
    /\ probe = NoProbe
    /\ argv = <<>>
    /\ sent = NoSent

Probed(call, p, q, ret) == [call |-> call, path |-> p, query_ok |-> q, ret |-> ret]

\* cifs.is_mounted(Path(p))
ProbeCifsIsMounted ==
    /\ pc = "probe"
    /\ \E p \in Paths, q \in BOOLEAN :
          probe' = Probed("CIFSBackend.is_mounted", p, q, CifsIsMounted(p, mtab, q))
    /\ UNCHANGED <<config, missing, umount_only, pc, idx, success_count, failure_count, mtab, gio,
                   gvfsdir, fs, tmpfile, cmds, last, run, pass, exit_code>>
    /\ UNCHANGED <<argv, sent>>

\* rclone.is_mounted(Path(p))
ProbeRcloneIsMounted ==
    /\ pc = "probe"
    /\ \E p \in Paths, q \in BOOLEAN :
          probe' = Probed("RcloneBackend.is_mounted", p, q, RcloneIsMounted(p, mtab, q))
    /\ UNCHANGED <<config, missing, umount_only, pc, idx, success_count, failure_count, mtab, gio,
                   gvfsdir, fs, tmpfile, cmds, last, run, pass, exit_code>>
    /\ UNCHANGED <<argv, sent>>

\* The remote identifiers tried: every text of up to MaxRemoteLen characters
\* over a small alphabet, and the three the documentation names
RemoteAlphabet == {":", "/", "a", "b"}
RemoteExamples ==
    { <<"r", "e", "m", "o", "t", "e", ":", "/", "b", "u", "c", "k", "e", "t", "/",
        "s", "u", "b", "/", "p", "a", "t", "h">>,
      Chars("remote"), Chars(":bucket") }
Remotes == UNION {[1..n -> RemoteAlphabet] : n \in 0..MaxRemoteLen} \cup RemoteExamples

\* rclone.bucket_from_remote_path(s), called once
ProbeBucketFromRemotePath ==
    /\ pc = "probe" /\ probe = NoProbe
    /\ \E s \in Remotes :
          probe' = [call |-> "RcloneBackend.bucket_from_remote_path", arg |-> s,
                    ret |-> BucketFromRemotePath(s)]
    /\ UNCHANGED <<config, missing, umount_only, pc, idx, success_count, failure_count, mtab,
                   gio, gvfsdir, fs, tmpfile, cmds, last, run, pass, exit_code>>
    /\ UNCHANGED <<argv, sent>>

NextProbe ==
    \/ ProbeCifsIsMounted
    \/ ProbeRcloneIsMounted

SpecProbe == InitProbe /\ [][NextProbe]_vars

\* bucket_from_remote_path on its own: it reads nothing of the OS
InitRemote == InitProbe /\ mtab = {}

NextRemote == ProbeBucketFromRemotePath

SpecRemote == InitRemote /\ [][NextRemote]_vars

(***************************************************************************)
(* GVFSBackend.is_mounted on its own: a gio listing and a runtime          *)
(* directory are drawn, and is_mounted is called once on a host and share. *)
(***************************************************************************)
ProbeLocations ==
    {DataShare,
     [host |-> Chars("FS:445"), path |-> Chars("/data")],
     [host |-> Chars("fs"), path |-> Chars("/data/sub")],
     [host |-> Chars("fs"), path |-> Chars("/dat")]}
ProbeDirEntries == {EntryNameOf(g) : g \in ProbeLocations}
ProbeHosts == {Chars("fs"), Chars("FS:445")}
ProbeShares == {Strip(Chars(s), "/") : s \in {"/data", "/dat", "/data/sub"}}

InitGvfs ==
    /\ config = <<>>
    /\ missing = {}
    /\ umount_only = FALSE
    /\ pc = "probe"
    /\ idx = 1
    /\ success_count = 0
    /\ failure_count = 0
    /\ mtab = {}
    /\ gio \in SUBSET ProbeLocations
    /\ gvfsdir \in SUBSET ProbeDirEntries
    /\ fs = [p \in Paths |-> Absent]
    /\ tmpfile = FALSE
    /\ cmds = <<>>
    /\ last = NoCall
    /\ run = NoTally
    /\ pass = 1
    /\ exit_code = "none"
    /\ probe = NoProbe
    /\ argv = <<>>
    /\ sent = NoSent

\* gvfs.is_mounted(host, share), called once
ProbeGvfsIsMounted ==
    /\ pc = "probe" /\ probe = NoProbe
    /\ \E host \in ProbeHosts, share \in ProbeShares, q \in BOOLEAN :
       \E r \in GvfsIsMounted(host, share, gio, gvfsdir, q) :
          probe' = [call |-> "GVFSBackend.is_mounted", host |-> host, share |-> share,
                    query_ok |-> q, ret |-> r]
    /\ UNCHANGED <<config, missing, umount_only, pc, idx, success_count, failure_count, mtab,
                   gio, gvfsdir, fs, tmpfile, cmds, last, run, pass, exit_code>>
    /\ UNCHANGED <<argv, sent>>

NextGvfs == ProbeGvfsIsMounted

SpecGvfs == InitGvfs /\ [][NextGvfs]_vars

(***************************************************************************)
(* The gvfs backend's calls that make the symlink, on their own: the node  *)
(* at /mnt/data, the gio listing and the runtime directory are drawn.      *)
(***************************************************************************)
LinkNodes ==
    {Absent, EmptyDir, FullDir, File, Symlink(EntryName(DataShare)), Symlink(Chars("old"))}

InitLink ==
    /\ config = <<>>
    /\ missing = {}
    /\ umount_only = FALSE
    /\ pc = "probe"
    /\ idx = 1
    /\ success_count = 0
    /\ failure_count = 0
    /\ mtab = {}
    /\ gio \in SUBSET GioUniverse
    /\ gvfsdir \in SUBSET DirUniverse
    /\ \E node \in LinkNodes : fs = [p \in Paths |-> IF p = "data" THEN node ELSE Absent]
    /\ tmpfile = FALSE
    /\ cmds = <<>>
    /\ last = NoCall
    /\ run = NoTally
    /\ pass = 1
    /\ exit_code = "none"
    /\ probe = NoProbe
    /\ argv = <<>>
    /\ sent = NoSent

\* gvfs.mount(config, ...) for a spec whose `gio mount` ends with status 0,
\* called once: the OS holds the new location, with or without its directory
\* entry yet (entry); q1, q2 are the outcomes of the two `gio mount -l` queries
ProbeGvfsMountExitZero ==
    /\ pc = "probe" /\ probe = NoProbe
    /\ \E share \in GvfsShares, entry \in BOOLEAN, q1 \in BOOLEAN, q2 \in BOOLEAN,
          fs_ok \in BOOLEAN :
          LET host == Chars("fs")
              share_root == ShareRoot(share)
              g == [host |-> host, path |-> Chars("/") \o share_root]
              gio1 == gio \cup {g}
              dir1 == IF entry THEN gvfsdir \cup {EntryName(g)} ELSE gvfsdir
          IN  \E r1 \in GvfsIsMountedAt(host, share_root, gio1, dir1, q1),
                 r2 \in GvfsIsMountedAt(host, share_root, gio1, dir1, q2) :
              LET l == GvfsLink(host, share_root, "data", fs, gio1, dir1, r1, r2, fs_ok)
              IN  /\ fs' = l.fs
                  /\ gio' = gio1
                  /\ gvfsdir' = dir1
                  /\ probe' = [call |-> "GVFSBackend.mount", host |-> host,
                               share_root |-> share_root, local |-> "data",
                               before |-> fs["data"], existed |-> Exists("data", fs, gvfsdir),
                               entry |-> entry, q1 |-> q1, q2 |-> q2,
                               fs_ok |-> fs_ok, ret |-> l.ret]
    /\ UNCHANGED <<config, missing, umount_only, pc, idx, success_count, failure_count, mtab,
                   tmpfile, cmds, last, run, pass, exit_code>>
    /\ UNCHANGED <<argv, sent>>

NextGvfsMount == ProbeGvfsMountExitZero

\* gvfs.umount(host, share, Path('/mnt/data')), called once
ProbeGvfsUmount ==
    /\ pc = "probe" /\ probe = NoProbe
    /\ \E host \in GvfsHosts, share \in GvfsShares, query_ok \in BOOLEAN, fs_ok \in BOOLEAN,
          cmd_ok \in BOOLEAN :
          LET u == GvfsUmount(host, share, "data", fs, gio, gvfsdir, query_ok, fs_ok, cmd_ok)
          IN  /\ fs' = u.fs
              /\ gio' = u.gio
              /\ gvfsdir' = u.gvfsdir
              /\ probe' = [call |-> "GVFSBackend.umount", host |-> host, share |-> share,
                           local |-> "data", before |-> fs["data"],
                           query_ok |-> query_ok, fs_ok |-> fs_ok,
                           cmds |-> Issued(u.cmds), ret |-> u.ret]
    /\ UNCHANGED <<config, missing, umount_only, pc, idx, success_count, failure_count, mtab,
                   tmpfile, cmds, last, run, pass, exit_code>>
    /\ UNCHANGED <<argv, sent>>

NextGvfsUmount == ProbeGvfsUmount

SpecGvfsUmount == InitLink /\ [][NextGvfsUmount]_vars

SpecGvfsMount == InitLink /\ [][NextGvfsMount]_vars

(***************************************************************************)
(* establish_symlink on its own: called once on /mnt/data, and then once   *)
(* more with the same arguments.                                           *)
(***************************************************************************)
\* The targets: the gvfs entry of the share, and a path that does not exist
LinkTargets == DirUniverse \cup {Chars("old"), Chars("remote")}

\* establish_symlink(target, Path('/mnt/data')), the first call
ProbeEstablishSymlink ==
    /\ pc = "probe" /\ probe = NoProbe
    /\ \E target \in LinkTargets, fs_ok \in BOOLEAN :
          LET e == EstablishSymlink(target, "data", fs, gvfsdir, fs_ok)
          IN  /\ fs' = e.fs
              /\ probe' = [call |-> "establish_symlink", target |-> target, link |-> "data",
                           before |-> fs["data"], fs_ok |-> fs_ok, calls |-> 1,
                           ret |-> e.ret, after |-> e.fs["data"], again |-> e.ret]
    /\ UNCHANGED <<config, missing, umount_only, pc, idx, success_count, failure_count, mtab,
                   gio, gvfsdir, tmpfile, cmds, last, run, pass, exit_code>>
    /\ UNCHANGED <<argv, sent>>

\* The second call, with the arguments of the first
ProbeEstablishSymlinkAgain ==
    /\ pc = "probe" /\ probe.call = "establish_symlink" /\ probe.calls = 1
    /\ probe.fs_ok
    /\ LET e == EstablishSymlink(probe.target, probe.link, fs, gvfsdir, TRUE)
       IN  /\ fs' = e.fs
           /\ probe' = [probe EXCEPT !.calls = 2, !.again = e.ret]
    /\ UNCHANGED <<config, missing, umount_only, pc, idx, success_count, failure_count, mtab,
                   gio, gvfsdir, tmpfile, cmds, last, run, pass, exit_code>>
    /\ UNCHANGED <<argv, sent>>

NextSymlink ==
    \/ ProbeEstablishSymlink
    \/ ProbeEstablishSymlinkAgain

SpecSymlink == InitLink /\ [][NextSymlink]_vars

(***************************************************************************)
(* RcloneBackend.establish_mount_point on its own: a mount table and the   *)
(* node at the mount path are drawn, and the method is called once.        *)
(***************************************************************************)
EstablishNodes == {Absent, EmptyDir, FullDir, File}

InitEstablish ==
    /\ config = <<>>
    /\ missing = {}
    /\ umount_only = FALSE
    /\ pc = "probe"
    /\ idx = 1
    /\ success_count = 0
    /\ failure_count = 0
    /\ mtab \in Tables
    /\ gio = {}
    /\ gvfsdir = {}
    /\ \E node \in EstablishNodes :
          fs = [p \in Paths |-> IF p \in MountPoints(mtab) THEN FullDir
                                ELSE IF p = "slh" THEN node ELSE Absent]
    /\ tmpfile = FALSE
    /\ cmds = <<>>
    /\ last = NoCall
    /\ run = NoTally
    /\ pass = 1
    /\ exit_code = "none"
    /\ probe = NoProbe
    /\ argv = <<>>
    /\ sent = NoSent

\* rclone.establish_mount_point(Path('/mnt/slh'), remote), called once; q1 and
\* q2 are the outcomes of the two `mount` queries, cmd_ok is fusermount's
ProbeRcloneEstablishMountPoint ==
    /\ pc = "probe" /\ probe = NoProbe
    /\ \E remote \in {"r:/bucket/sub", "remote"}, q1 \in BOOLEAN, q2 \in BOOLEAN,
          fs_ok \in BOOLEAN, cmd_ok \in BOOLEAN :
          LET e == RcloneEstablishMountPoint("slh", Chars(remote), fs, gvfsdir, mtab, q1, q2,
                                             fs_ok, cmd_ok)
          IN  /\ fs' = e.fs
              /\ mtab' = e.mtab
              /\ probe' = [call |-> "RcloneBackend.establish_mount_point", path |-> "slh",
                           remote |-> remote, table |-> mtab, before |-> fs["slh"],
                           q1 |-> q1, q2 |-> q2, fs_ok |-> fs_ok, cmd_ok |-> cmd_ok,
                           cmds |-> Issued(e.cmds), ret |-> e.ret]
    /\ UNCHANGED <<config, missing, umount_only, pc, idx, success_count, failure_count, gio,
                   gvfsdir, tmpfile, cmds, last, run, pass, exit_code>>
    /\ UNCHANGED <<argv, sent>>

NextEstablish == ProbeRcloneEstablishMountPoint

SpecEstablish == InitEstablish /\ [][NextEstablish]_vars

(***************************************************************************)
(* GVFSBackend.mount's dialogue with `gio mount`, step by step: the spawn, *)
(* the expect loop, and the return.  probe.at is where the call is, and    *)
(* sent.pty holds the latest exchange.                                     *)
(***************************************************************************)
Prompts == {"Authentication Required", "User", "Domain", "Password:"}

InDialogue == probe.call = "GVFSBackend.mount" /\ probe.at = "expect"

\* pexpect.spawn(f'gio mount "{gvfs_url}"'); a spawn that raises is caught by
\* `except Exception`, and mount returns False
SpawnGio ==
    /\ pc = "probe" /\ probe = NoProbe
    /\ \E share \in GvfsShares, spawn_ok \in BOOLEAN :
          probe' = [call |-> "GVFSBackend.mount", host |-> Chars("fs"),
                    share_root |-> ShareRoot(share),
                    at |-> IF spawn_ok THEN "expect" ELSE "returned",
                    end |-> IF spawn_ok THEN "none" ELSE "exception",
                    ret |-> IF spawn_ok THEN "running" ELSE "False"]
    /\ UNCHANGED <<config, missing, umount_only, pc, idx, success_count, failure_count, mtab,
                   gio, gvfsdir, fs, tmpfile, cmds, last, run, pass, exit_code>>
    /\ UNCHANGED <<argv, sent>>

\* child.expect(prompts, timeout=15) matches one of the four prompts: the
\* answer, if any, is sent, and the `while True` loop goes round
AnswerPrompt ==
    /\ InDialogue
    /\ \E prompt \in Prompts :
          sent' = [file |-> <<>>,
                   pty |-> GioDialogue(<<prompt>>, "<user>", "<domain>", password)]
    /\ UNCHANGED <<config, missing, umount_only, pc, idx, success_count, failure_count, mtab,
                   gio, gvfsdir, fs, tmpfile, cmds, last, run, pass, exit_code>>
    /\ UNCHANGED <<probe, argv>>

\* child.expect matches EOF with exit status 0: the OS holds the new
\* location, and mount returns what establish_symlink returns
DialogueEndsInMount ==
    /\ InDialogue
    /\ \E entry \in BOOLEAN, q1 \in BOOLEAN, q2 \in BOOLEAN, fs_ok \in BOOLEAN :
          LET host == probe.host
              g == [host |-> host, path |-> Chars("/") \o probe.share_root]
              gio1 == gio \cup {g}
              dir1 == IF entry THEN gvfsdir \cup {EntryName(g)} ELSE gvfsdir
          IN  \E r1 \in GvfsIsMountedAt(host, probe.share_root, gio1, dir1, q1),
                 r2 \in GvfsIsMountedAt(host, probe.share_root, gio1, dir1, q2) :
              LET l == GvfsLink(host, probe.share_root, "data", fs, gio1, dir1, r1, r2, fs_ok)
              IN  /\ fs' = l.fs
                  /\ gio' = gio1
                  /\ gvfsdir' = dir1
                  /\ probe' = [probe EXCEPT !.at = "returned", !.end = "eof0",
                                            !.ret = Bool(l.ret)]
    /\ UNCHANGED <<config, missing, umount_only, pc, idx, success_count, failure_count, mtab,
                   tmpfile, cmds, last, run, pass, exit_code>>
    /\ UNCHANGED <<argv, sent>>

\* child.expect matches EOF with another exit status, or TIMEOUT after 15
\* seconds without a prompt, or raises: mount returns False
DialogueFails ==
    /\ InDialogue
    /\ \E out \in GioOutcomes \ {"eof0"} :
          probe' = [probe EXCEPT !.at = "returned", !.end = out, !.ret = "False"]
    /\ UNCHANGED <<config, missing, umount_only, pc, idx, success_count, failure_count, mtab,
                   gio, gvfsdir, fs, tmpfile, cmds, last, run, pass, exit_code>>
    /\ UNCHANGED <<argv, sent>>

NextDialogue ==
    \/ SpawnGio
    \/ AnswerPrompt
    \/ DialogueEndsInMount
    \/ DialogueFails

\* The program always takes its next step (expect returns within its
\* timeout); what gio prints next is gio's choice
SpecDialogue == InitLink /\ [][NextDialogue]_vars /\ WF_vars(NextDialogue)

(***************************************************************************)
(* Properties.                                                             *)
(***************************************************************************)
Supported(cfg) == \A i \in 1..Len(cfg) : cfg[i].backend \in Backends

\* C1: process_mounts processes every declared mount and returns the two
\* counts: a run that is not interrupted ends by returning, with every
\* declared mount processed, whatever failed on the way.
C1_EveryMountProcessed ==
    pc \in {"done", "raised"} => pc = "done" /\ idx = Len(config) + 1

\* C2: after a mount-mode pass in which every OS-level mount succeeded, the
\* second pass over the same configuration issues no mount command: no
\* handling of the second pass whose mount-state query was answered issues one.
C2_SecondPassIssuesNoMount ==
    (pass = 2 /\ last.query_ok) =>
        \A k \in 1..Len(cmds) : cmds[k].name \notin MountCommands

\* C3: whenever CIFSBackend.mount has returned, by whatever path, the
\* credentials temp file it created is gone.
C3_TempFileGoneOnReturn ==
    (pc \in {"loop", "done"} /\ last.backend = BACKEND_CIFS /\ last.call = "mount")
        => ~tmpfile

\* C4: a SIGINT that arrives during a CIFS mount, anywhere from the creation
\* of the credentials temp file to mount's return, ends the process with a
\* nonzero status and with the temp file removed.
C4_InterruptRemovesTempFile ==
    (pc = "exited" /\ last.call = "interrupt" /\ last.ret \in {"cifs_write", "cifs_run"})
        => exit_code # 0 /\ ~tmpfile

\* C5: CIFSBackend.is_mounted(p) is true exactly when some line of the mount
\* table contains ' on p type ' or ends with ' on p'; so it is false for a
\* path that is no mount point, such as a strict prefix of a mounted path.
C5_CifsIsMountedExact ==
    (probe.call = "CIFSBackend.is_mounted" /\ probe.query_ok) =>
        /\ probe.ret <=>
              \E line \in MountOutput(mtab) :
                 \/ Contains(line, Chars(" on ") \o Chars(probe.path) \o Chars(" type "))
                 \/ EndsWith(line, Chars(" on ") \o Chars(probe.path))
        /\ probe.path \notin MountPoints(mtab) => ~probe.ret

\* /mnt/slh was asked for while only /mnt/slhfile is mounted, and the answer
\* was false
C5_Witness ==
    /\ probe.call = "CIFSBackend.is_mounted" /\ probe.query_ok
    /\ probe.path = "slh" /\ MountPoints(mtab) = {"slhfile"}
    /\ ~probe.ret

\* C6: RcloneBackend.is_mounted(local) is true when local is a mount point of
\* the table and false when it is not, a strict prefix of a mounted path
\* included.
C6_RcloneIsMountedExact ==
    (probe.call = "RcloneBackend.is_mounted" /\ probe.query_ok) =>
        (probe.ret <=> probe.path \in MountPoints(mtab))

\* C7: umount on a target that is not mounted returns true and issues no
\* unmount command, whatever the other arguments are.
C7_UmountOfUnmountedIsTrue ==
    (last.call = "umount" /\ ~last.mounted) => last.ret = "True" /\ cmds = <<>>

\* C8: every backend mount and umount call ends by returning a boolean: none
\* raises, none returns another value.
C8_CallsReturnBooleans ==
    (last.call \in {"mount", "umount"} /\ pc \notin {"cifs_write", "cifs_run"})
        => last.ret \in {"True", "False"}

\* C9: in unmount mode, when every declared share is absent from the OS,
\* process_mounts returns (N, 0), N the number of declared mounts, and issues
\* no unmount command.
C9_UnmountOfAbsentShares ==
    (pc = "done" /\ umount_only /\ Supported(config) /\ run.absent)
        => /\ success_count = Len(config)
           /\ failure_count = 0
           /\ run.n_umount = 0

\* The run of a configuration of one CIFS mount in which `sudo mount` exited 0
\* and the table showed the mount at one of the first 5 polls
OneCifsMounted ==
    /\ Len(config) = 1 /\ config[1].backend = BACKEND_CIFS /\ ~umount_only
    /\ pc = "done"
    /\ last.call = "mount" /\ ~last.mounted
    /\ cmds = <<[name |-> "sudo mount", ok |-> TRUE]>>
    /\ last.delay < 5

\* C10: for one CIFS mount, not mounted at the start, whose `sudo mount` exits
\* 0 and which the table shows within 5 polls, process_mounts returns (1, 0)
\* and the exit code is 0.
C10_OneCifsMountSucceeds ==
    OneCifsMounted => success_count = 1 /\ failure_count = 0 /\ exit_code = 0

\* The table showed the mount at the fifth poll only
C10_Witness ==
    OneCifsMounted /\ last.delay = 4 /\ success_count = 1 /\ exit_code = 0

\* The step in which the one gvfs mount of a configuration, not mounted, is
\* handled in mount mode and `gio mount` ends with a non-zero exit status
GioMountFails ==
    /\ Len(config) = 1 /\ InLoop /\ Cur.backend = BACKEND_GVFS /\ ~umount_only
    /\ ~OsMounted(Cur, mtab, gio)
    /\ pc' = "loop" /\ idx' = idx + 1
    /\ cmds' = <<[name |-> "gio mount", ok |-> FALSE]>>

\* C11: for one gvfs mount that is not mounted, when `gio mount` ends with a
\* non-zero exit status process_mounts counts (0, 1), and the node at the
\* spec's local path is left as it was: no symlink is created or changed.
C11_GioFailureCountsOneFailure ==
    [][GioMountFails =>
          /\ success_count' = 0 /\ failure_count' = 1
          /\ fs' = fs]_vars

\* Such a run has returned, and the local path holds no symlink
C11_Witness ==
    /\ Len(config) = 1 /\ config[1].backend = BACKEND_GVFS /\ ~umount_only
    /\ pc = "done" /\ pass = 1
    /\ last.call = "mount" /\ ~last.mounted
    /\ cmds = <<[name |-> "gio mount", ok |-> FALSE]>>
    /\ success_count = 0 /\ failure_count = 1
    /\ ~IsSymlink(config[1].local, fs)


\* C12 as stated: the exit code is 0 if at least one mount operation succeeded
\* in mount mode, or if the unmount pass ran in unmount mode whatever its
\* counts; it is 1 on a configuration error or when every operation failed.
C12_ExitZeroWheneverUnmountRan ==
    /\ pc = "done" /\ ~umount_only /\ success_count > 0 => exit_code = 0
    /\ pc = "done" /\ umount_only => exit_code = 0
    /\ pc = "config_error" => exit_code = 1
    /\ pc = "done" /\ ~umount_only /\ success_count = 0 /\ failure_count > 0
          => exit_code = 1

\* C12, amended: when process_mounts returns, the exit code is 0 exactly when
\* at least one operation was counted a success, in mount mode and in unmount
\* mode alike; it is 1 on a configuration error, and when the run is cut short
\* by an uncaught exception or an interrupt.
C12_ExitCodeFollowsSuccessCount ==
    /\ pc = "done" => (exit_code = 0 <=> success_count > 0)
    /\ pc = "done" => exit_code \in {0, 1}
    /\ pc \in {"config_error", "raised", "exited"} => exit_code = 1

\* An unmount pass in which every unmount failed ends with exit code 1
C12_Witness ==
    /\ pc = "done" /\ umount_only
    /\ success_count = 0 /\ failure_count > 0
    /\ exit_code = 1

\* The executables the backends of the declared mounts need, of those the
\* model lets be absent (CIFSBackend._check_dependencies names mount.cifs)
Required(cfg) ==
    {"mount.cifs" : i \in {k \in 1..Len(cfg) : cfg[k].backend = BACKEND_CIFS}}

\* C13: when an executable that the backend of a declared mount requires is
\* absent from the system path, load_config fails with a ValueError (the run
\* ends as a configuration error) and no mount or unmount command is invoked.
C13_MissingExecutableFailsLoad ==
    Required(config) \cap missing # {} =>
        /\ pc \in {"load", "config_error"}
        /\ cmds = <<>>

\* The latest handling was of a spec of a supported backend that the backend's
\* is_mounted reported as already mounted, in mount mode
ReportedAlreadyMounted ==
    /\ ~umount_only
    /\ last.backend \in Backends
    /\ last.call \in {"none", "link"}

\* C14: in mount mode, for a spec of a supported backend that the backend
\* reports as already mounted, the orchestrator invokes no backend mount (no
\* mount command is issued) and increments exactly one of success_count and
\* failure_count, by one.
C14_AlreadyMountedCountsOnce ==
    ReportedAlreadyMounted =>
        /\ \A k \in 1..Len(cmds) : cmds[k].name \notin MountCommands
        /\ last.ds + last.df = 1

\* The latest handling was the mount of an s3 spec in which the
\* `rclone mount` command exited with status 0
RcloneMountExitedZero ==
    /\ ~umount_only
    /\ last.backend = BACKEND_S3 /\ last.call = "mount"
    /\ \E k \in 1..Len(cmds) : cmds[k] = [name |-> "rclone mount", ok |-> TRUE]

\* C15: for an s3 spec that is not mounted, when the rclone mount command
\* exits 0, RcloneBackend.mount reports success and success_count is
\* incremented for the mount (besides what establish_mount_point added).
C15_RcloneExitZeroCountsSuccess ==
    RcloneMountExitedZero =>
        /\ last.ret = "True"
        /\ last.ds = (IF last.est = "True" THEN 1 ELSE 0) + 1

\* The latest handling was RcloneBackend.mount on a spec whose remote is
\* malformed (the spec handled is the one before idx)
MountOfMalformedRemote ==
    /\ ~umount_only /\ pc \in {"loop", "done"} /\ idx > 1
    /\ last.backend = BACKEND_S3 /\ last.call = "mount"
    /\ ~BucketFromRemotePath(Chars(config[idx - 1].remote)).ok

\* C16: RcloneBackend.mount validates the remote before use: on a malformed
\* remote the mount fails (returns False) and the rclone mount command is not
\* invoked.
C16_MalformedRemoteNotMounted ==
    MountOfMalformedRemote =>
        /\ last.ret = "False"
        /\ \A k \in 1..Len(cmds) : cmds[k].name # "rclone mount"

\* The first path segment of the text after the colon, the slashes before it
\* left out: the longest run without a slash that starts at the first
\* character that is not a slash (empty when there is no such character)
FirstSegment(rest) ==
    LET starts == {i \in 1..Len(rest) : rest[i] # "/"}
    IN  IF starts = {} THEN <<>>
        ELSE LET a == CHOOSE i \in starts : \A j \in starts : i <= j
                 ends == {e \in a..Len(rest) : \A j \in a..e : rest[j] # "/"}
                 b == CHOOSE e \in ends : \A j \in ends : j <= e
             IN  [i \in 1..(b - a + 1) |-> rest[a + i - 1]]

\* C17: bucket_from_remote_path accepts a remote exactly when it has a
\* non-empty name before its first colon, and then returns the first path
\* segment after the colon, slashes stripped; with no colon, or with nothing
\* before the colon, it returns an error message.
C17_BucketFromRemotePath ==
    probe.call = "RcloneBackend.bucket_from_remote_path" =>
        LET s == probe.arg
            colons == {i \in 1..Len(s) : s[i] = ":"}
        IN  /\ probe.ret.ok <=> (colons # {} /\ 1 \notin colons)
            /\ colons = {} => probe.ret.bucket = <<"invalid bucket format">>
            /\ 1 \in colons => probe.ret.bucket = <<"missing remote name">>
            /\ probe.ret.ok =>
                  LET c == CHOOSE i \in colons : \A j \in colons : i <= j
                  IN  probe.ret.bucket = FirstSegment(SubSeq(s, c + 1, Len(s)))

\* 'remote:/bucket/sub/path' was parsed, and gave 'bucket'
C17_Witness ==
    /\ probe.call = "RcloneBackend.bucket_from_remote_path"
    /\ Len(probe.arg) = 23 /\ Len(probe.ret.bucket) = 6
    /\ probe.ret = [ok |-> TRUE, bucket |-> <<"b", "u", "c", "k", "e", "t">>]

\* Does a piece of one of the arguments hold the password
HoldsPassword(args) ==
    \E i \in 1..Len(args) : \E j \in 1..Len(args[i]) : args[i][j] = password

\* Does the option string of a mount command name the credentials file
NamesCredentialsFile(args) ==
    \E i \in 2..Len(args) :
       /\ args[i - 1] = <<"-o">>
       /\ \E j \in 1..(Len(args[i]) - 1) :
             args[i][j] = "credentials=" /\ args[i][j + 1] = "<temp_file.name>"

\* C18: no command the backends start has the password in its argument
\* list; a cifs mount command names in its option string the credentials
\* file, into which the password was written; and the password is sent to
\* gio's pseudo-terminal only in answer to the password prompt.
C18_PasswordNeverAnArgument ==
    /\ \A k \in 1..Len(argv) : ~HoldsPassword(argv[k])
    /\ \A k \in 1..Len(cmds) :
          cmds[k].name = "sudo mount" =>
              /\ NamesCredentialsFile(argv[k])
              /\ \E n \in 1..Len(sent.file) : sent.file[n] = <<"password=", password>>
    /\ \A k \in 1..Len(sent.pty) :
          sent.pty[k].line = <<password>> => sent.pty[k].prompt = "Password:"

\* A cifs mount command was run, the password being in the credentials file
C18_Witness ==
    /\ cmds = <<[name |-> "sudo mount", ok |-> TRUE]>>
    /\ Len(argv) = 1 /\ NamesCredentialsFile(argv[1])
    /\ sent.file # <<>>

\* The spec the latest handling was of: the for loop has moved on, unless the
\* handling raised
Handled == IF pc = "raised" THEN config[idx] ELSE config[idx - 1]

\* Is the spec's local path the actual mount point of its share (cifs, s3),
\* or a symlink to the gvfs directory entry of its share, which gio lists as
\* mounted (gvfs)
LocalAtMountPoint(c) ==
    IF c.backend = BACKEND_GVFS
    THEN /\ OsMounted(c, mtab, gio)
         /\ \E g \in gio :
               /\ g.host = Chars(c.host)
               /\ fs[c.local] = Symlink(EntryName(g))
    ELSE c.local \in MountPoints(mtab)

\* The latest handling, in mount mode, added to success_count
CountedASuccess ==
    /\ ~umount_only
    /\ pc \in {"loop", "done", "raised"}
    /\ last.backend \in Backends
    /\ last.ds > 0

\* C19: whenever process_mounts in mount mode counts a spec as a success, the
\* spec's local path is either the actual mount point of the share or a
\* symlink that points at the actual mount point.
C19_SuccessMeansLocalAtMountPoint ==
    CountedASuccess => LocalAtMountPoint(Handled)

\* A step of process_mounts, in mount mode, that handles a spec of a supported
\* backend and in which the mount-state query of the first is_mounted fails
HandledWithFailedQuery ==
    /\ InLoop /\ ~umount_only /\ Cur.backend \in Backends
    /\ ~last'.query_ok

ListedExactly(host, share) ==
    \E g \in gio :
       /\ Lower(HostName(g.host)) = Lower(HostName(host))
       /\ HostPort(g.host) = HostPort(host)
       /\ Lower(FirstPart(Strip(g.path, "/"), "/")) = Lower(share)

\* The entry name the naming convention gives the port, server and share
\* asked for
ConventionalName(host, share) ==
    Chars("smb-share:port=") \o HostPort(host) \o Chars(",server=")
        \o Lower(HostName(host)) \o Chars(",share=") \o Lower(share)

\* C21: is_mounted(host, share) returns true exactly when the gio listing
\* holds an entry with that hostname, port and share, or the runtime directory
\* holds an entry that encodes exactly that port, server and share (so never
\* for a share that is only a prefix of a mounted share's name); when true
\* the path is not null, and it is the expected path when the listing
\* confirms and the directory holds no such entry.
C21_GvfsIsMountedExact ==
    probe.call = "GVFSBackend.is_mounted" =>
        LET listed == probe.query_ok /\ ListedExactly(probe.host, probe.share)
            name == ConventionalName(probe.host, probe.share)
            entries == {e \in gvfsdir : Lower(e) = name}
        IN  /\ probe.ret.m <=> (listed \/ entries # {})
            /\ probe.ret.m => probe.ret.mp # None
            /\ listed /\ entries = {} => probe.ret.mp = name

\* C22: when `gio mount` ends with status 0 (and the file system refuses
\* nothing), mount leaves the local path as a symlink to the mount point, which
\* by the naming convention is the expected path, and returns true, whether
\* the local path was absent or was already a symlink from an earlier run.
C22_ExitZeroLeavesSymlink ==
    /\ probe.call = "GVFSBackend.mount"
    /\ probe.fs_ok
    /\ probe.before.kind \in {"absent", "symlink"}
    => /\ probe.ret
       /\ fs[probe.local] = Symlink(ConventionalName(probe.host, probe.share_root))

\* Does is_mounted confirm the share as mounted: gio lists it, or the runtime
\* directory holds an entry whose name contains its conventional name
ConfirmedMounted(host, share, query_ok) ==
    \/ query_ok /\ ListedExactly(host, share)
    \/ \E e \in gvfsdir : Contains(Lower(e), ConventionalName(host, share))

\* C23: GVFSBackend.umount removes the symlink at local first, so whatever
\* the mount-state query and the unmount command then do; the result does not
\* depend on the removal; and `gio mount --unmount` is issued exactly when
\* is_mounted confirms the share as mounted, once.
C23_UmountRemovesSymlinkFirst ==
    [][probe'.call = "GVFSBackend.umount" =>
          LET confirmed == ConfirmedMounted(probe'.host, probe'.share, probe'.query_ok)
              local == probe'.local
          IN  /\ IsSymlink(local, fs) /\ probe'.fs_ok => fs'[local] = Absent
              /\ ~(IsSymlink(local, fs) /\ probe'.fs_ok) => fs' = fs
              /\ Len(probe'.cmds) = (IF confirmed THEN 1 ELSE 0)
              /\ \A k \in 1..Len(probe'.cmds) : probe'.cmds[k].name = "gio mount --unmount"
              /\ probe'.ret = (IF confirmed THEN Bool(probe'.cmds[1].ok) ELSE "True")]_vars

\* The symlink was removed although the unmount command then failed
C23_Witness ==
    /\ probe.call = "GVFSBackend.umount" /\ probe.fs_ok
    /\ probe.before.kind = "symlink"
    /\ fs[probe.local] = Absent
    /\ probe.cmds = <<[name |-> "gio mount --unmount", ok |-> FALSE]>>
    /\ probe.ret = "False"

\* C24: the prompt loop of GVFSBackend.mount always reaches a terminal state
\* and mount returns, for every sequence of prompts gio can emit, a gio that
\* keeps prompting again included.
C24_PromptLoopEnds ==
    <>(probe.call = "GVFSBackend.mount" /\ probe.at = "returned")

\* The latest handling ran CIFSBackend.mount's inner try to its end
CifsMountRan ==
    /\ pc \in {"loop", "done"}
    /\ last.backend = BACKEND_CIFS /\ last.call = "mount"
    /\ cmds # <<>>

\* C25: one call of CIFSBackend.mount invokes the mount command at most
\* once; after a non-zero exit it returns false; after a zero exit it returns
\* true when one of the 5 polls reports the path mounted (the table shows the
\* mount from poll number last.delay on, counted from 0), and false when none
\* of the 5 does.
C25_OneMountCommandFivePolls ==
    /\ last.backend = BACKEND_CIFS =>
          Cardinality({k \in 1..Len(cmds) : cmds[k].name = "sudo mount"}) <= 1
    /\ CifsMountRan =>
          /\ Len(cmds) = 1 /\ cmds[1].name = "sudo mount"
          /\ ~cmds[1].ok => last.ret = "False"
          /\ cmds[1].ok => (last.ret = "True" <=> last.delay < 5)
          /\ cmds[1].ok => last.ret \in {"True", "False"}

\* The command exited with 0 and none of the 5 polls reported the mount
C25_Witness ==
    /\ CifsMountRan
    /\ cmds = <<[name |-> "sudo mount", ok |-> TRUE]>>
    /\ last.delay = 5 /\ last.ret = "False"

\* C26: RcloneBackend.establish_mount_point called on a path that is mounted
\* (with both `mount` queries answered, fusermount and the file system
\* working) returns true and leaves the path unmounted and an empty directory.
C26_MountedPathIsRemade ==
    /\ probe.call = "RcloneBackend.establish_mount_point"
    /\ probe.path \in MountPoints(probe.table)
    /\ probe.q1 /\ probe.q2 /\ probe.fs_ok /\ probe.cmd_ok
    /\ BucketFromRemotePath(Chars(probe.remote)).ok
    => /\ probe.ret
       /\ probe.path \notin MountPoints(mtab)
       /\ fs[probe.path] = EmptyDir

\* The number of mounts the configuration declares for supported backends
DeclaredSupported(cfg) == Cardinality({i \in 1..Len(cfg) : cfg[i].backend \in Backends})

\* C27: when process_mounts has returned, in mount mode or unmount mode,
\* success_count + failure_count is the number of declared mounts of the
\* supported backends.
C27_CountsAddUpToDeclaredMounts ==
    pc = "done" => success_count + failure_count = DeclaredSupported(config)

\* The latest handling was an unmount that process_mounts counted as a
\* success, in which the mount state was queried with success and no unmount
\* command failed
UmountCountedASuccess ==
    /\ umount_only /\ pc \in {"loop", "done"}
    /\ last.backend \in Backends /\ last.call = "umount"
    /\ last.ds = 1 /\ last.query_ok
    /\ \A k \in 1..Len(cmds) : cmds[k].ok

\* C28: in unmount mode, when process_mounts counts a spec as a success and
\* the commands behave, the spec's share is not mounted afterwards.
C28_UmountSuccessMeansNotMounted ==
    UmountCountedASuccess => ~OsMounted(Handled, mtab, gio)

\* The latest handling, in mount mode, was of a cifs or s3 spec that was not
\* reported as already mounted
MountPointWasAsked ==
    /\ ~umount_only /\ pc \in {"loop", "done", "raised", "cifs_write", "cifs_run"}
    /\ last.backend \in {BACKEND_CIFS, BACKEND_S3}
    /\ last.est \in {"True", "False"}

\* C29: in mount mode a mount command is issued for a cifs or s3 spec only
\* after establish_mount_point returned true for it; when it returned false,
\* no mount command is issued for the spec and exactly one failure is counted.
C29_MountOnlyAfterMountPoint ==
    MountPointWasAsked =>
        /\ (\E k \in 1..Len(cmds) : cmds[k].name \in MountCommands) => last.est = "True"
        /\ last.est = "False" =>
              /\ \A k \in 1..Len(cmds) : cmds[k].name \notin MountCommands
              /\ last.ds = 0 /\ last.df = 1

\* C30: with a working file system, establish_symlink(target, link) returns
\* true and leaves link a symlink to target when link is absent, a symlink
\* (its target existing or not) or an empty directory; returns false and leaves
\* link as it was when link is a non-empty directory or a regular file; and a
\* second call with the same arguments returns the same and changes nothing.
C30_EstablishSymlink ==
    probe.call = "establish_symlink" /\ probe.fs_ok =>
        /\ probe.before.kind \in {"absent", "symlink", "emptydir"} =>
              probe.ret /\ probe.after = Symlink(probe.target)
        /\ probe.before.kind \in {"dir", "file"} =>
              ~probe.ret /\ probe.after = probe.before
        /\ probe.calls = 2 => probe.again = probe.ret /\ fs[probe.link] = probe.after
====
